---- MODULE Spec2Model ----
(***************************************************************************)
(* tdu (Top Disk Usage): the recursive scanner of src/tdu.go (v1.36), its  *)
(* unix stat shim (src/tdu_unix.go), the Ncdu exporter and the reporter,   *)
(* as a state machine.  The file system is an input: every Lstat and       *)
(* ReadDir result is drawn from the bounded sets of `env`.                 *)
(***************************************************************************)
EXTENDS Integers, Sequences, FiniteSets, TLC

VARIABLES
    cfg,        \* the flags set by usage(): the max* limits, export
    env,        \* the family of file systems explored by this run
    pc,         \* position of main()
    sc,         \* the counters and flags of s_scan
    inodes,     \* sc.inodes: inode number -> occurrence counter
    bigfiles,   \* sc.bigfiles
    lists,      \* sc.errors, denieddirs, emptydirs, streams, devices
    msg,        \* sc.msg, the buffered alert channel
    bg,         \* position of the showProgress goroutine
    printed,    \* what showProgress has written: alerts, the progress line
    fi,         \* main's detail list `fi`
    stack,      \* the active calls of scan() that are inside the child loop
    total,      \* main's `t`, the record scan returned for the root
    out,        \* the tokens written to sc.exportFile
    efile,      \* state of sc.exportFile: "none", "open", "closed"
    report,     \* what show() and showmax() printed
    scanned,    \* history: every record fullStat returned, in order
    failed,     \* history: the paths whose Lstat failed, in order
    probe       \* a function applied on its own: its arguments, its result

vars == <<cfg, env, pc, sc, inodes, bigfiles, lists, msg, bg, printed, fi,
          stack, total, out, efile, report, scanned, failed, probe>>

----------------------------------------------------------------------------
(* Bounds of the explored inputs.                                          *)

MaxKids == 2        \* entries one ReadDir returns
MaxDepth == 3       \* depth of the deepest item (the scan root has depth 1)
MaxItems == 4       \* Lstat calls of one run
MaxLimit == 2       \* largest value tried for -l
MaxBig == 1         \* largest value tried for -b in the Top-K runs
TopKids == 6        \* entries one ReadDir returns in the Top-K runs
TopItems == 7       \* Lstat calls of one Top-K run
MaxCap == 1         \* largest value tried for -e, -d, -s, -f, -t
ListKids == 3       \* entries one ReadDir returns in the recording runs
ListItems == 4      \* Lstat calls of one recording run
IntBits == 24       \* width given to an int64 (two's complement, scaled)
MaxSmall == 6       \* the small sizes and block sizes tried on avgDiskUsage
MaxName == 2        \* characters of a name, and of the path of the scan root
AlertKids == 33     \* entries one ReadDir returns in the alert runs
AlertItems == 34    \* Lstat calls of one alert run

----------------------------------------------------------------------------
(* Program constants.                                                      *)

dft_BLOCKSIZE == 4096       \* blockSize of the file literal in fullStat
cst_FASTSYMLINK == 60       \* fast symlink threshold in fullStat
cst_MSGCAP == 32            \* capacity of sc.msg
cst_SECTOR == 512           \* bytes per st_blocks unit
cst_UINT16 == 65536         \* modulus of the ino_map counter

NoFile == [nil |-> TRUE]    \* a nil *file
EndProgressMsg == "###"     \* cst_ENDPROGRESS

Kinds == {"reg", "dir", "symlink", "pipe", "chardev", "blockdev", "socket",
          "unknown"}

----------------------------------------------------------------------------
(* Sequence helpers.                                                       *)

Last(s) == s[Len(s)]
Front(s) == SubSeq(s, 1, Len(s) - 1)
Min(a, b) == IF a < b THEN a ELSE b
Take(s, k) == SubSeq(s, 1, Min(k, Len(s)))

RECURSIVE SumDu(_)
SumDu(s) == IF s = <<>> THEN 0 ELSE Head(s).diskUsage + SumDu(Tail(s))

RECURSIVE SumItems(_)
SumItems(s) ==
    IF s = <<>> THEN 0
    ELSE Head(s).items + (IF Head(s).isDir THEN 1 ELSE 0) + SumItems(Tail(s))

(* szDesc.Less: a[i].diskUsage > a[j].diskUsage *)
Less(a, b) == a.diskUsage > b.diskUsage

(* sort.Sort(szDesc(s)): descending by diskUsage.  sort.Sort is not stable; *)
(* the order of entries of equal diskUsage is the one insertion gives here. *)
RECURSIVE InsertDesc(_, _)
InsertDesc(x, s) ==
    IF s = <<>> THEN <<x>>
    ELSE IF Less(x, Head(s)) THEN <<x>> \o s
    ELSE <<Head(s)>> \o InsertDesc(x, Tail(s))

RECURSIVE SortDesc(_)
SortDesc(s) ==
    IF s = <<>> THEN <<>> ELSE InsertDesc(Last(s), SortDesc(Front(s)))

----------------------------------------------------------------------------
(* fullStat and sysStat.                                                   *)

(* int64 arithmetic wraps around; the width is scaled to IntBits bits *)
MaxInt == 2 ^ (IntBits - 1) - 1
Int64(x) == ((x + MaxInt + 1) % (2 ^ IntBits)) - MaxInt - 1

(* Fallback to approximate disk usage *)
avgDiskUsage(sz, bsize) ==
    IF sz = 0 THEN 0
    ELSE IF sz < bsize THEN bsize
    ELSE LET d == sz \div bsize
             i == d * bsize
         IN  IF sz > i THEN Int64(i + bsize) ELSE sz

(* The file literal of fullStat and the per-mode fields its switch sets,   *)
(* before sysStat.  st is what Lstat reported for the path.                *)
NewFile(path, depth, st) ==
    LET du == avgDiskUsage(st.size, dft_BLOCKSIZE)
    IN  [path |-> path, depth |-> depth, kind |-> st.kind, size |-> st.size,
         isDir |-> st.kind = "dir",
         isRegular |-> st.kind = "reg",
         isSymlink |-> st.kind = "symlink",
         isSpecial |-> st.kind \in {"pipe", "chardev", "blockdev", "socket"},
         isOtherFs |-> FALSE, readError |-> FALSE,
         blockSize |-> dft_BLOCKSIZE,
         diskUsage |-> IF st.kind = "symlink" /\ st.size < cst_FASTSYMLINK
                       THEN 0 ELSE du,
         items |-> 0, nBlocks512 |-> 0, inode |-> 0, nLinks |-> 0,
         deviceId |-> 0]

(* The counters the switch of fullStat increments, after sc.nItems++.      *)
CountKind(s, kind) ==
    LET s1 == [s EXCEPT !.nItems = @ + 1]
    IN  CASE kind = "reg"      -> [s1 EXCEPT !.nFiles = @ + 1]
          [] kind = "dir"      -> [s1 EXCEPT !.nDirs = @ + 1]
          [] kind = "symlink"  -> [s1 EXCEPT !.nSymlinks = @ + 1]
          [] kind = "pipe"     -> [s1 EXCEPT !.nPipes = @ + 1]
          [] kind = "chardev"  -> [s1 EXCEPT !.nCharDevices = @ + 1]
          [] kind = "blockdev" -> [s1 EXCEPT !.nBlockDevices = @ + 1]
          [] kind = "socket"   -> [s1 EXCEPT !.nSockets = @ + 1]
          [] OTHER             -> s1

(* The recordings of the switch of fullStat: streams and devices.          *)
RecordKind(ls, f) ==
    CASE f.kind \in {"pipe", "socket"} ->
            IF cfg.maxStreams > 0
            THEN [ls EXCEPT !.streams = Append(@, f.path)] ELSE ls
      [] f.kind \in {"chardev", "blockdev"} ->
            IF cfg.maxDevices > 0
            THEN [ls EXCEPT !.devices = Append(@, f.path)] ELSE ls
      [] OTHER -> ls

(* sysStat of the unix build: native device, inode and block count, the    *)
(* boundary test and the hardlink discount.  Returns the record, the       *)
(* counters, the inode map and the alerts pushed.                          *)
sysStatUnix(s, ino, f, st) ==
    LET f1  == [f EXCEPT !.deviceId = st.dev, !.inode = st.ino,
                         !.nLinks = st.nlink, !.blockSize = st.blksize,
                         !.nBlocks512 = st.blocks,
                         !.diskUsage = cst_SECTOR * st.blocks]
        s1  == IF f.depth = 1 THEN [s EXCEPT !.currentDevice = f1.deviceId]
               ELSE s
        oth == f1.deviceId # s1.currentDevice
        f2  == [f1 EXCEPT !.isOtherFs = oth]
        s2  == IF oth THEN [s1 EXCEPT !.foundBoundary = TRUE] ELSE s1
        hl  == f2.inode \in DOMAIN ino /\ ~f2.isOtherFs
        f3  == IF hl THEN [f2 EXCEPT !.diskUsage = 0] ELSE f2
        s3  == IF hl THEN [s2 EXCEPT !.nHardlinks = @ + 1] ELSE s2
        cnt == IF f2.inode \in DOMAIN ino THEN ino[f2.inode] ELSE 0
    IN  [f |-> f3, sc |-> s3,
         inodes |-> [i \in DOMAIN ino \cup {f2.inode} |->
                        IF i = f2.inode THEN (cnt + 1) % cst_UINT16
                        ELSE ino[i]],
         alerts |-> IF oth THEN <<[what |-> "otherfs", path |-> f.path]>>
                    ELSE <<>>]

(* A variant of sysStatGeneric that keeps the estimate of fullStat.        *)
sysStatGenericEstimate(s, ino, f, st) ==
    [f |-> [f EXCEPT !.deviceId = 0, !.inode = 0, !.nLinks = 0,
                     !.blockSize = dft_BLOCKSIZE, !.nBlocks512 = 0],
     sc |-> s, inodes |-> ino, alerts |-> <<>>]

(* A variant of sysStatGeneric that keeps the inode ledger of the unix     *)
(* build on its zero device and inode.                                     *)
sysStatGenericLedger(s, ino, f, st) ==
    LET r == sysStatUnix(s, ino, f,
                [st EXCEPT !.dev = 0, !.ino = 0, !.nlink = 0, !.blocks = 0])
    IN  [r EXCEPT !.f.diskUsage = IF @ = 0 /\ r.f.inode \notin DOMAIN ino
                                  THEN f.size ELSE @]

(* sysStat of the generic and windows builds.                              *)
sysStatGeneric(s, ino, f, st) ==
    [f |-> [f EXCEPT !.deviceId = 0, !.inode = 0, !.nLinks = 0,
                     !.blockSize = dft_BLOCKSIZE, !.nBlocks512 = 0,
                     !.diskUsage = f.size],
     sc |-> s, inodes |-> ino, alerts |-> <<>>]

sysStat(s, ino, f, st) ==
    IF env.native THEN sysStatUnix(s, ino, f, st)
    ELSE sysStatGeneric(s, ino, f, st)

(* fullStat when Lstat succeeds.                                           *)
fullStat(path, depth, st) ==
    LET f0 == NewFile(path, depth, st)
        s0 == CountKind(sc, st.kind)
        un == IF st.kind = "unknown"
              THEN <<[what |-> "unknown", path |-> path]>> ELSE <<>>
        r  == sysStat(s0, inodes, f0, st)
    IN  [f |-> r.f, sc |-> r.sc, inodes |-> r.inodes,
         lists |-> RecordKind(lists, f0), alerts |-> un \o r.alerts]

(* fullStat when Lstat fails: the counters and the recording.              *)
fullStatError(path) ==
    [sc |-> [sc EXCEPT !.nErrors = @ + 1],
     lists |-> IF cfg.maxErrors > 0
               THEN [lists EXCEPT !.errors = Append(@, path)] ELSE lists]

----------------------------------------------------------------------------
(* The Ncdu exporter.                                                      *)

TokInit == [t |-> "header"]
TokOpen == [t |-> "["]
TokClose == [t |-> "]"]
TokNext == [t |-> ","]
TokEnd == [t |-> "end"]

ncduOpe(o, tok) == IF cfg.export THEN Append(o, tok) ELSE o

(* A variant of ncduDiskUsage that exports the usage as counted by scan.   *)
ncduDiskUsageNoLinks(f) ==
    [du |-> f.diskUsage, hl |-> FALSE]

(* Names are sequences of character codes. *)
HexDigit(n) == IF n < 10 THEN 48 + n ELSE 55 + n

(* fmt.Sprintf("\\u00%02X", c): backslash, u, 0, 0 and two hex digits *)
Escape(c) == <<92, 117, 48, 48, HexDigit(c \div 16), HexDigit(c % 16)>>

RECURSIVE cleanName(_)
cleanName(s) ==
    IF s = <<>> THEN <<>>
    ELSE (IF Head(s) <= 31 \/ Head(s) = 34 \/ Head(s) = 127
          THEN Escape(Head(s)) ELSE <<Head(s)>>) \o cleanName(Tail(s))

(* the name ncduAdd writes: cleanName(f.name), replaced by the working     *)
(* directory as os.Getwd() returns it for the scan root                    *)
ncduName(name, depth, wd) == IF depth = 1 THEN wd ELSE cleanName(name)

(* ncduDiskUsage: a hardlinked file is exported with its full usage *)
ncduDiskUsage(f) ==
    IF f.nLinks > 1 /\ ~f.isDir
    THEN [du |-> cst_SECTOR * f.nBlocks512, hl |-> TRUE]
    ELSE [du |-> f.diskUsage, hl |-> FALSE]

(* The object ncduAdd writes; a key that is left out reads as 0 / FALSE.   *)
ncduObject(f) ==
    LET d == ncduDiskUsage(f)
    IN  [t |-> "obj", path |-> f.path,
         asize |-> IF f.size > 0 /\ ~f.isOtherFs THEN f.size ELSE 0,
         dsize |-> IF d.du > 0 /\ ~f.isOtherFs THEN d.du ELSE 0,
         hasdev |-> f.depth = 1 \/ f.isOtherFs,
         ino |-> f.inode, hlnkc |-> d.hl,
         notreg |-> ~f.isDir /\ ~f.isRegular,
         read_error |-> f.readError,
         excluded |-> f.isOtherFs]

ncduAdd(o, f) == IF cfg.export THEN Append(o, ncduObject(f)) ELSE o

----------------------------------------------------------------------------
(* The file system met by the walk (the environment).                      *)

Top == Last(stack)

(* the arguments of the next call of scan *)
CallDepth == IF stack = <<>> THEN 1 ELSE Top.f.depth + 1
CallPath == IF stack = <<>> THEN <<>> ELSE Append(Top.f.path, Top.n)
(* A variant of CallFiles that hands the detail sink down at every depth.  *)
CallFilesEveryDepth == IF stack = <<>> THEN TRUE ELSE Top.files

CallFiles ==            \* TRUE: a detail sink is passed, FALSE: nil
    IF stack = <<>> THEN TRUE
    ELSE IF Top.f.depth > 1 THEN FALSE ELSE Top.files
CanCall == pc = "scan" /\ (IF stack = <<>> THEN TRUE ELSE Top.n < Top.l)

Attempts == sc.nItems + sc.nErrors

RECURSIVE Pending(_)
Pending(stk) ==         \* entries already listed and not yet visited
    IF stk = <<>> THEN 0
    ELSE (Head(stk).l - Head(stk).n - 1) + Pending(Tail(stk))

InoChoices == IF env.inos = {} THEN {Attempts + 1} ELSE env.inos

SeenAt(dev, ino) ==
    {k \in 1..Len(scanned) : scanned[k].st.dev = dev /\ scanned[k].st.ino = ino}

(* What Lstat can report for the next path.  The scan root is a directory  *)
(* on device 1.  One inode of one device is one file: a second path to it  *)
(* is a hardlink of a non-directory and reports the same metadata.         *)
Fresh(S) == {st \in S : SeenAt(st.dev, st.ino) = {}}

StatChoices ==
    IF CallDepth = 1
    THEN {[kind |-> "dir", size |-> s, dev |-> 1, ino |-> i, nlink |-> 2,
           blocks |-> b, blksize |-> dft_BLOCKSIZE] :
              s \in env.dirSizes, b \in env.dirBlocks, i \in InoChoices}
    ELSE Fresh({[kind |-> k, size |-> s, dev |-> d, ino |-> i, nlink |-> n,
                 blocks |-> b, blksize |-> dft_BLOCKSIZE] :
                    k \in env.kinds \ {"dir"}, s \in env.sizes,
                    d \in env.devs, i \in InoChoices, n \in env.links,
                    b \in env.blocks})
         \cup
         Fresh({[kind |-> "dir", size |-> s, dev |-> d, ino |-> i,
                 nlink |-> 2, blocks |-> b, blksize |-> dft_BLOCKSIZE] :
                    s \in IF "dir" \in env.kinds THEN env.dirSizes ELSE {},
                    d \in env.devs, i \in InoChoices,
                    b \in env.dirBlocks})
         \cup
         {scanned[k].st : k \in {j \in 1..Len(scanned) :
              scanned[j].st.kind # "dir" /\ scanned[j].st.nlink > 1}}

(* What ioutil.ReadDir can report for a directory at this depth: the       *)
(* number of entries, or an error with no entry.                           *)
ReadDirChoices(depth) ==
    LET room == env.maxItems - (Attempts + 1) - Pending(stack)
        kmax == IF depth >= env.maxDepth THEN 0 ELSE Min(env.maxKids, room)
    IN  {[ok |-> TRUE, l |-> k] : k \in 0..kmax}
        \cup (IF env.deny THEN {[ok |-> FALSE, l |-> 0]} ELSE {})

----------------------------------------------------------------------------
(* scan.                                                                   *)

(* the channel send of push(): possible while the buffer has room *)
CanPush(alerts) == Len(msg) + Len(alerts) <= cst_MSGCAP

(* A variant of Register whose compaction truncates without sorting.       *)
RegisterNoSort(big, f) ==
    LET b1 == IF Len(big) > cfg.maxBigFiles * 4
              THEN SubSeq(big, 1, cfg.maxBigFiles) ELSE big
    IN  Append(b1, f)

(* A variant of Register that leaves the symlinks out.                     *)
RegisterFilesOnly(big, f) ==
    LET b1 == IF Len(big) > cfg.maxBigFiles * 4
              THEN SubSeq(SortDesc(big), 1, cfg.maxBigFiles) ELSE big
    IN  IF f.isSymlink THEN b1 ELSE Append(b1, f)

(* A variant of Register that never compacts.                              *)
RegisterNoCompaction(big, f) == Append(big, f)

(* registration with the biggest files: compaction, then append *)
Register(big, f) ==
    LET b1 == IF Len(big) > cfg.maxBigFiles * 4
              THEN SubSeq(SortDesc(big), 1, cfg.maxBigFiles) ELSE big
    IN  Append(b1, f)

(* the parent's loop body before the recursive call: items++ *)
Called(stk) ==
    IF stk = <<>> THEN stk
    ELSE Append(Front(stk), [Last(stk) EXCEPT !.items = @ + 1])

(* A variant of Returned in which a directory adds the size of the record  *)
(* it received and leaves its disk usage out.                              *)
ReturnedWithoutUsage(stk, cf, o) ==
    IF stk = <<>>
    THEN /\ total' = cf
         /\ pc' = "endProgress"
         /\ stack' = stk
         /\ out' = o
    ELSE LET p == Last(stk)
         IN  /\ stack' = Append(Front(stk),
                    [p EXCEPT !.n = @ + 1, !.size = @ + cf.size,
                              !.items = @ + cf.items])
             /\ out' = IF p.n < p.l - 1 THEN ncduOpe(o, TokNext) ELSE o
             /\ UNCHANGED <<total, pc>>

(* The caller's side of `cf, err := scan(...)` with err == nil: main keeps *)
(* the record; a parent directory writes the separator and accumulates.    *)
Returned(stk, cf, o) ==
    IF stk = <<>>
    THEN /\ total' = cf
         /\ pc' = "endProgress"
         /\ stack' = stk
         /\ out' = o
    ELSE LET p == Last(stk)
         IN  /\ stack' = Append(Front(stk),
                    [p EXCEPT !.n = @ + 1, !.size = @ + cf.size,
                              !.du = @ + cf.diskUsage,
                              !.items = @ + cf.items])
             /\ out' = IF p.n < p.l - 1 THEN ncduOpe(o, TokNext) ELSE o
             /\ UNCHANGED <<total, pc>>

(* A variant of Failed that leaves the loop instead of continuing.         *)
FailedAbort(stk) ==
    IF stk = <<>>
    THEN /\ total' = NoFile
         /\ pc' = "endProgress"
         /\ stack' = stk
    ELSE /\ stack' = Append(Front(stk), [Last(stk) EXCEPT !.n = Last(stk).l])
         /\ UNCHANGED <<total, pc>>

(* The caller's side with err != nil: `continue`.                          *)
Failed(stk) ==
    IF stk = <<>>
    THEN /\ total' = NoFile
         /\ pc' = "endProgress"
         /\ stack' = stk
    ELSE /\ stack' = Append(Front(stk), [Last(stk) EXCEPT !.n = @ + 1])
         /\ UNCHANGED <<total, pc>>

(* A variant of isLeaf without the return at a file system boundary.       *)
isLeafAnyDevice(f) == f.isSymlink \/ ~f.isDir

(* the two returns of scan ahead of ReadDir: `if f.isOtherFs` and          *)
(* `if f.isSymlink || !f.isDir`                                            *)
isLeaf(f) == IF f.isOtherFs THEN TRUE ELSE f.isSymlink \/ ~f.isDir

(* scan of a path whose Lstat fails *)
ScanError ==
    /\ CanCall
    /\ sc.nErrors < env.maxFail
    /\ LET e == fullStatError(CallPath)
       IN  /\ sc' = e.sc
           /\ lists' = e.lists
    /\ failed' = Append(failed, CallPath)
    /\ Failed(Called(stack))
    /\ UNCHANGED <<probe, cfg, env, inodes, bigfiles, msg, bg, printed, fi, out,
                   efile, report, scanned>>

(* scan of a path that is not a directory, or lies on another device *)
ScanLeaf ==
    /\ CanCall
    /\ \E st \in StatChoices :
         LET r  == fullStat(CallPath, CallDepth, st)
             f  == r.f
             o1 == IF ~f.isDir THEN ncduAdd(out, f) ELSE out
             o2 == IF f.isOtherFs THEN ncduAdd(o1, f) ELSE o1
         IN  /\ isLeaf(f)
             /\ CanPush(r.alerts)
             /\ sc' = r.sc
             /\ inodes' = r.inodes
             /\ lists' = r.lists
             /\ msg' = msg \o r.alerts
             /\ scanned' = Append(scanned,
                    [f |-> f, st |-> st, ok |-> TRUE, l |-> 0])
             /\ fi' = IF ~f.isOtherFs /\ CallFiles THEN Append(fi, f) ELSE fi
             /\ bigfiles' = IF f.isOtherFs THEN bigfiles
                            ELSE Register(bigfiles, f)
             /\ Returned(Called(stack), f, o2)
    /\ UNCHANGED <<probe, cfg, env, bg, printed, efile, report, failed>>

(* A variant of countEmpty that is off by one entry.                       *)
countEmptyOffByOne(s, l) ==
    IF l = 1 THEN [s EXCEPT !.nEmptyDir = @ + 1] ELSE s

(* `if l == 0 { sc.nEmptyDir++ }` *)
countEmpty(s, l) ==
    IF l = 0 THEN [s EXCEPT !.nEmptyDir = @ + 1] ELSE s

(* scan of a directory of the root's device, up to the child loop *)
ScanDir ==
    /\ CanCall
    /\ \E st \in StatChoices :
         LET r == fullStat(CallPath, CallDepth, st)
         IN  /\ ~isLeaf(r.f)
             /\ CanPush(r.alerts)
             /\ \E rd \in ReadDirChoices(CallDepth) :
                  LET f  == [r.f EXCEPT !.readError = ~rd.ok]
                      s1 == IF rd.ok THEN r.sc
                            ELSE [r.sc EXCEPT !.nDenied = @ + 1]
                      l1 == IF ~rd.ok /\ cfg.maxDenied > 0
                            THEN [r.lists EXCEPT
                                     !.denieddirs = Append(@, f.path)]
                            ELSE r.lists
                      o1 == ncduAdd(ncduOpe(out, TokOpen), f)
                  IN  /\ sc' = countEmpty(s1, rd.l)
                      /\ lists' = IF rd.l = 0 /\ cfg.maxEmptyDirs > 0
                                  THEN [l1 EXCEPT
                                           !.emptydirs = Append(@, f.path)]
                                  ELSE l1
                      /\ out' = IF rd.l > 0 THEN ncduOpe(o1, TokNext) ELSE o1
                      /\ inodes' = r.inodes
                      /\ msg' = msg \o r.alerts
                      /\ scanned' = Append(scanned,
                            [f |-> f, st |-> st, ok |-> rd.ok, l |-> rd.l])
                      /\ stack' = Append(Called(stack),
                            [f |-> f, l |-> rd.l, n |-> 0, size |-> f.size,
                             du |-> f.diskUsage, items |-> 0,
                             files |-> CallFiles])
    /\ UNCHANGED <<probe, cfg, env, pc, bigfiles, bg, printed, fi, total, efile,
                   report, failed>>

(* A variant of Aggregate that leaves the directory's own stat out.        *)
AggregateChildrenOnly(fr) ==
    [path |-> fr.f.path, depth |-> fr.f.depth, kind |-> "dir",
     size |-> fr.size - fr.f.size, diskUsage |-> fr.du - fr.f.diskUsage,
     items |-> fr.items,
     isDir |-> TRUE, isRegular |-> FALSE, isSymlink |-> FALSE,
     isSpecial |-> FALSE, isOtherFs |-> FALSE, readError |-> FALSE,
     blockSize |-> 0, nBlocks512 |-> 0, inode |-> 0, nLinks |-> 0,
     deviceId |-> 0]

(* the aggregate record `fo` of a directory *)
Aggregate(fr) ==
    [path |-> fr.f.path, depth |-> fr.f.depth, kind |-> "dir",
     size |-> fr.size, diskUsage |-> fr.du, items |-> fr.items,
     isDir |-> TRUE, isRegular |-> FALSE, isSymlink |-> FALSE,
     isSpecial |-> FALSE, isOtherFs |-> FALSE, readError |-> FALSE,
     blockSize |-> 0, nBlocks512 |-> 0, inode |-> 0, nLinks |-> 0,
     deviceId |-> 0]

(* scan of a directory, after the child loop *)
DirReturn ==
    /\ pc = "scan"
    /\ stack # <<>>
    /\ Top.n = Top.l
    /\ LET fo == Aggregate(Top)
       IN  /\ fi' = IF Top.f.depth > 1 /\ Top.files THEN Append(fi, fo)
                    ELSE fi
           /\ Returned(Front(stack), fo, ncduOpe(out, TokClose))
    /\ UNCHANGED <<probe, cfg, env, sc, inodes, bigfiles, lists, msg, bg, printed,
                   efile, report, scanned,
                   failed>>

----------------------------------------------------------------------------
(* The reporter.                                                           *)

(* A variant of show whose rollup starts one entry late.                   *)
showLateRollup(list, tot, s) ==
    IF tot.diskUsage = 0
    THEN [zero |-> TRUE, lines |-> <<>>, rDiskUsage |-> 0, rItems |-> 0,
          remaining |-> FALSE, diskSpace |-> 0, totalSize |-> 0]
    ELSE LET sorted == SortDesc(list)
             rest   == SubSeq(sorted, Min(cfg.maxShownLines, Len(sorted)) + 2,
                              Len(sorted))
             shown  == SelectSeq(sorted,
                          LAMBDA f : ~(~f.isDir /\ s.nFiles = 0))
             rdu    == SumDu(rest)
         IN  [zero |-> FALSE,
              lines |-> Take(shown, cfg.maxShownLines),
              rDiskUsage |-> rdu, rItems |-> SumItems(rest),
              remaining |-> rdu > 0,
              diskSpace |-> tot.diskUsage, totalSize |-> tot.size]

(* show(): the sorted depth-1 list, the REMAINING rollup of its first      *)
(* loop, the lines its second loop prints and the two totals.              *)
show(list, tot, s) ==
    IF tot.diskUsage = 0
    THEN [zero |-> TRUE, lines |-> <<>>, rDiskUsage |-> 0, rItems |-> 0,
          remaining |-> FALSE, diskSpace |-> 0, totalSize |-> 0]
    ELSE LET sorted == SortDesc(list)
             rest   == SubSeq(sorted, Min(cfg.maxShownLines, Len(sorted)) + 1,
                              Len(sorted))
             shown  == SelectSeq(sorted,
                          LAMBDA f : ~(~f.isDir /\ s.nFiles = 0))
             rdu    == SumDu(rest)
         IN  [zero |-> FALSE,
              lines |-> Take(shown, cfg.maxShownLines),
              rDiskUsage |-> rdu, rItems |-> SumItems(rest),
              remaining |-> rdu > 0,
              diskSpace |-> tot.diskUsage, totalSize |-> tot.size]

(* showmax(): the final sort of sc.bigfiles and the lines printed *)
showmaxRuns(tot) == tot.diskUsage # 0 /\ cfg.maxBigFiles > 0

showmax(big, tot) ==
    IF showmaxRuns(tot) THEN Take(SortDesc(big), cfg.maxBigFiles) ELSE <<>>

(* showempty, showdenied, showerrors, showstreams, showdevices *)
showlist(l, max) == IF max <= 0 THEN <<>> ELSE Take(l, max)

----------------------------------------------------------------------------
(* main and the progress goroutine.                                        *)

(* A variant of Start that goes on without the export file.                *)
StartWithoutFile ==
    /\ pc = "start"
    /\ \E opened \in IF cfg.export THEN env.open ELSE {TRUE} :
         /\ pc' = "scan"
         /\ out' = IF opened THEN ncduOpe(out, TokInit) ELSE out
         /\ efile' = IF cfg.export /\ opened THEN "open" ELSE efile
         /\ bg' = IF cfg.tty THEN "run" ELSE bg
    /\ UNCHANGED <<probe, cfg, env, sc, inodes, bigfiles, lists, msg, printed,
                   fi, stack, total, report, scanned, failed>>

(* ncduInit and startProgress *)
Start ==
    /\ pc = "start"
    /\ \E opened \in IF cfg.export THEN env.open ELSE {TRUE} :
         IF ~opened
         THEN /\ pc' = "exit1"
              /\ UNCHANGED <<out, efile, bg>>
         ELSE /\ pc' = "scan"
              /\ out' = ncduOpe(out, TokInit)
              /\ efile' = IF cfg.export THEN "open" ELSE efile
              /\ bg' = IF cfg.tty THEN "run" ELSE bg
    /\ UNCHANGED <<probe, cfg, env, sc, inodes, bigfiles, lists, msg, printed, fi,
                   stack, total, report, scanned,
                   failed>>

(* endProgress: the sentinel is sent when stdout is a TTY *)
EndProgress ==
    /\ pc = "endProgress"
    /\ IF cfg.tty
       THEN /\ Len(msg) < cst_MSGCAP
            /\ msg' = Append(msg, [what |-> EndProgressMsg, path |-> <<>>])
            /\ pc' = "waitDone"
       ELSE /\ pc' = "results"
            /\ UNCHANGED msg
    /\ UNCHANGED <<probe, cfg, env, sc, inodes, bigfiles, lists, bg, printed, fi,
                   stack, total, out, efile, report, scanned,
                   failed>>

(* showProgress: one received message *)
ShowProgress ==
    /\ bg = "run"
    /\ msg # <<>>
    /\ msg' = Tail(msg)
    /\ IF Head(msg).what # EndProgressMsg
       THEN printed' = Append(printed, Head(msg)) /\ UNCHANGED bg
       ELSE bg' = "ack" /\ UNCHANGED printed
    /\ UNCHANGED <<probe, cfg, env, pc, sc, inodes, bigfiles, lists, fi, stack,
                   total, out, efile, report, scanned,
                   failed>>

(* showProgress: the default branch of the select repaints the progress   *)
(* line; printProgress ends its line with "\r", so that successive         *)
(* repaints are one line of the terminal.                                  *)
PrintProgress ==
    /\ bg = "run"
    /\ msg = <<>>
    /\ IF printed = <<>> THEN TRUE ELSE Last(printed).what # "progress"
    /\ printed' = Append(printed, [what |-> "progress", path |-> <<>>])
    /\ UNCHANGED <<probe, cfg, env, pc, sc, inodes, bigfiles, lists, msg, bg,
                   fi, stack, total, out, efile, report, scanned, failed>>

(* A variant of Done in which endProgress does not wait for sc.done.       *)
DoneNoWait ==
    /\ pc = "waitDone"
    /\ pc' = "results"
    /\ bg' = IF bg = "ack" THEN "exit" ELSE bg
    /\ UNCHANGED <<probe, cfg, env, sc, inodes, bigfiles, lists, msg, printed,
                   fi, stack, total, out, efile, report, scanned, failed>>

(* sc.done <- true meets <-sc.done *)
Done ==
    /\ pc = "waitDone"
    /\ bg = "ack"
    /\ pc' = "results"
    /\ bg' = "exit"
    /\ UNCHANGED <<probe, cfg, env, sc, inodes, bigfiles, lists, msg, printed, fi,
                   stack, total, out, efile, report, scanned,
                   failed>>

(* showResults: a nil total is dereferenced by show *)
ShowResults ==
    /\ pc = "results"
    /\ IF total = NoFile
       THEN /\ pc' = "panic"
            /\ UNCHANGED <<report, bigfiles, fi>>
       ELSE /\ pc' = "ncduEnd"
            /\ report' = [show |-> show(fi, total, sc),
                          big |-> showmax(bigfiles, total),
                          empty |-> showlist(lists.emptydirs,
                                             cfg.maxEmptyDirs),
                          denied |-> showlist(lists.denieddirs,
                                              cfg.maxDenied),
                          errors |-> showlist(lists.errors, cfg.maxErrors),
                          streams |-> showlist(lists.streams,
                                               cfg.maxStreams),
                          devices |-> showlist(lists.devices,
                                               cfg.maxDevices)]
            /\ fi' = IF total.diskUsage = 0 THEN fi ELSE SortDesc(fi)
            /\ bigfiles' = IF showmaxRuns(total) THEN SortDesc(bigfiles)
                           ELSE bigfiles
    /\ UNCHANGED <<probe, cfg, env, sc, inodes, lists, msg, bg, printed, stack,
                   total, out, efile, scanned,
                   failed>>

(* ncduEnd: the closing token, then Close *)
NcduEnd ==
    /\ pc = "ncduEnd"
    /\ pc' = "done"
    /\ out' = ncduOpe(out, TokEnd)
    /\ efile' = IF cfg.export THEN "closed" ELSE efile
    /\ UNCHANGED <<probe, cfg, env, sc, inodes, bigfiles, lists, msg, bg, printed,
                   fi, stack, total, report, scanned,
                   failed>>

Next ==
    \/ Start
    \/ ScanError
    \/ ScanLeaf
    \/ ScanDir
    \/ DirReturn
    \/ EndProgress
    \/ ShowProgress
    \/ Done
    \/ ShowResults
    \/ NcduEnd

----------------------------------------------------------------------------
(* Initial states.                                                         *)

(* newScanStruct, and main before ncduInit *)
InitScan ==
    /\ pc = "start"
    /\ sc = [nErrors |-> 0, nDenied |-> 0, nItems |-> 0, nFiles |-> 0,
             nDirs |-> 0, nEmptyDir |-> 0, nSymlinks |-> 0,
             nHardlinks |-> 0, nSockets |-> 0, nPipes |-> 0,
             nCharDevices |-> 0, nBlockDevices |-> 0, currentDevice |-> 0,
             foundBoundary |-> FALSE]
    /\ inodes = <<>>
    /\ bigfiles = <<>>
    /\ lists = [errors |-> <<>>, denieddirs |-> <<>>, emptydirs |-> <<>>,
                streams |-> <<>>, devices |-> <<>>]
    /\ msg = <<>>
    /\ bg = "off"
    /\ printed = <<>>
    /\ fi = <<>>
    /\ stack = <<>>
    /\ total = NoFile
    /\ out = <<>>
    /\ efile = "none"
    /\ report = NoFile
    /\ scanned = <<>>
    /\ failed = <<>>

(* usage(): the flags *)
Config(l, b, cap, export, tty) ==
    [maxShownLines |-> l, maxBigFiles |-> b, maxEmptyDirs |-> cap,
     maxDenied |-> cap, maxErrors |-> cap, maxStreams |-> cap,
     maxDevices |-> cap, export |-> export, tty |-> tty]

(* Trees of mixed kinds on two devices, with hardlinks and failures.       *)
Init ==
    /\ InitScan
    /\ probe = NoFile
    /\ cfg \in {Config(l, 1, 1, TRUE, TRUE) : l \in 0..MaxLimit}
    /\ env = [native |-> TRUE, kinds |-> {"reg", "dir", "symlink"},
              devs |-> {1, 2}, inos |-> {1, 2}, sizes |-> {40},
              blocks |-> {8}, dirSizes |-> {4096}, dirBlocks |-> {8},
              links |-> {1, 2}, maxFail |-> MaxItems, deny |-> TRUE,
              open |-> {TRUE, FALSE},
              maxKids |-> MaxKids, maxDepth |-> MaxDepth,
              maxItems |-> MaxItems]

Spec == Init /\ [][Next]_vars

(* The repaint of the progress line reads and writes nothing of the walk,  *)
(* the export or the report: Next leaves it out, and the specification of  *)
(* the terminal output adds it.                                            *)
NextProgress == Next \/ PrintProgress

(* Trees with cross-device items, stdout a TTY or not.                     *)
InitProgress ==
    /\ InitScan
    /\ probe = NoFile
    /\ cfg \in {Config(0, 1, 0, FALSE, tty) : tty \in BOOLEAN}
    /\ env = [native |-> TRUE, kinds |-> {"reg", "dir", "unknown"},
              devs |-> {1, 2}, inos |-> {}, sizes |-> {40},
              blocks |-> {8}, dirSizes |-> {4096}, dirBlocks |-> {8},
              links |-> {1}, maxFail |-> 1, deny |-> FALSE,
              open |-> {TRUE},
              maxKids |-> MaxKids, maxDepth |-> MaxDepth,
              maxItems |-> MaxItems]

SpecProgress == InitProgress /\ [][NextProgress]_vars

(* A build without native block accounting: the file system has devices,   *)
(* inodes and hardlinks, the generic sysStat does not read them.           *)
InitGeneric ==
    /\ InitScan
    /\ probe = NoFile
    /\ cfg = Config(0, 1, 0, FALSE, TRUE)
    /\ env = [native |-> FALSE, kinds |-> {"reg", "dir", "symlink"},
              devs |-> {1, 2}, inos |-> {1, 2}, sizes |-> {40, 5000},
              blocks |-> {8}, dirSizes |-> {4096}, dirBlocks |-> {8},
              links |-> {1, 2}, maxFail |-> 1, deny |-> TRUE,
              open |-> {TRUE},
              maxKids |-> MaxKids, maxDepth |-> MaxDepth,
              maxItems |-> MaxItems]

SpecGeneric == InitGeneric /\ [][Next]_vars

(* avgDiskUsage on its own: sizes from 0 to the largest int64, small block *)
(* sizes and the block sizes of the program.                               *)
ProbeSizes ==
    (0..MaxSmall) \cup {dft_BLOCKSIZE - 1, dft_BLOCKSIZE, dft_BLOCKSIZE + 1,
                        5000, 2 * dft_BLOCKSIZE}
    \cup ((MaxInt - MaxSmall)..MaxInt)
ProbeBlockSizes == (1..MaxSmall) \cup {cst_SECTOR, dft_BLOCKSIZE}

InitAvg ==
    /\ InitScan
    /\ cfg = Config(0, 0, 0, FALSE, FALSE)
    /\ env = NoFile
    /\ probe \in {[fn |-> "avgDiskUsage", sz |-> sz, bsize |-> b,
                    applied |-> FALSE, res |-> 0] :
                      sz \in ProbeSizes, b \in ProbeBlockSizes}

(* f.diskUsage = avgDiskUsage(f.size, f.blockSize) *)
ProbeAvgDiskUsage ==
    /\ probe # NoFile
    /\ probe.fn = "avgDiskUsage"
    /\ ~probe.applied
    /\ probe' = [probe EXCEPT !.applied = TRUE,
                              !.res = avgDiskUsage(probe.sz, probe.bsize)]
    /\ UNCHANGED <<cfg, env, pc, sc, inodes, bigfiles, lists, msg, bg,
                   printed, fi, stack, total, out, efile, report, scanned,
                   failed>>

NextAvg == ProbeAvgDiskUsage

(* The name of an exported object on its own: names over a control         *)
(* character (31), a space, a double quote (34), a letter and DEL (127);   *)
(* the scan root is "." in a working directory "/..."                      *)
Chars == {31, 32, 34, 97, 127}

RECURSIVE Names(_)
Names(n) ==
    IF n = 0 THEN {<<>>}
    ELSE Names(n - 1) \cup {Append(s, c) : s \in Names(n - 1), c \in Chars}

InitName ==
    /\ InitScan
    /\ cfg = Config(0, 0, 0, TRUE, FALSE)
    /\ env = NoFile
    /\ probe \in {[fn |-> "ncduAdd", name |-> n, depth |-> 2,
                    wd |-> <<47>> \o w, applied |-> FALSE, res |-> <<>>] :
                      n \in Names(MaxName) \ {<<>>}, w \in Names(MaxName)}
               \cup
               {[fn |-> "ncduAdd", name |-> <<46>>, depth |-> 1,
                 wd |-> <<47>> \o w, applied |-> FALSE, res |-> <<>>] :
                      w \in Names(MaxName)}

(* ncduAdd: the name put between the quotes of "name" *)
ProbeNcduName ==
    /\ probe # NoFile
    /\ probe.fn = "ncduAdd"
    /\ ~probe.applied
    /\ probe' = [probe EXCEPT !.applied = TRUE,
                              !.res = ncduName(probe.name, probe.depth,
                                               probe.wd)]
    /\ UNCHANGED <<cfg, env, pc, sc, inodes, bigfiles, lists, msg, bg,
                   printed, fi, stack, total, out, efile, report, scanned,
                   failed>>

NextName == ProbeNcduName

SpecName == InitName /\ [][NextName]_vars

SpecAvg == InitAvg /\ [][NextAvg]_vars

(* Depth-1 lists of entries of different usage, for every value of -l.     *)
InitShow ==
    /\ InitScan
    /\ probe = NoFile
    /\ cfg \in {Config(l, 1, 0, FALSE, TRUE) : l \in 0..MaxLimit}
    /\ env = [native |-> TRUE, kinds |-> {"reg", "dir", "symlink"},
              devs |-> {1, 2}, inos |-> {}, sizes |-> {40},
              blocks |-> {8, 16}, dirSizes |-> {4096},
              dirBlocks |-> {8}, links |-> {1}, maxFail |-> 1,
              deny |-> FALSE, open |-> {TRUE},
              maxKids |-> MaxKids + 1, maxDepth |-> MaxDepth,
              maxItems |-> MaxItems]

SpecShow == InitShow /\ [][Next]_vars

(* Flat directories of many regular files, for every value of -b.          *)
InitTopK ==
    /\ InitScan
    /\ probe = NoFile
    /\ cfg \in {Config(0, b, 0, FALSE, TRUE) : b \in 1..MaxBig}
    /\ env = [native |-> TRUE, kinds |-> {"reg"},
              devs |-> {1}, inos |-> {}, sizes |-> {40},
              blocks |-> {0, 8, 16}, dirSizes |-> {4096},
              dirBlocks |-> {8}, links |-> {1}, maxFail |-> 1,
              deny |-> FALSE, open |-> {TRUE},
              maxKids |-> TopKids, maxDepth |-> MaxDepth,
              maxItems |-> TopItems]

SpecTopK == InitTopK /\ [][Next]_vars

(* Trees of every kind of item, with failures, for caps 0..MaxCap.         *)
InitLists ==
    /\ InitScan
    /\ probe = NoFile
    /\ cfg \in {Config(0, 1, c, FALSE, TRUE) : c \in 0..MaxCap}
    /\ env = [native |-> TRUE, kinds |-> Kinds,
              devs |-> {1}, inos |-> {}, sizes |-> {40},
              blocks |-> {8}, dirSizes |-> {4096},
              dirBlocks |-> {8}, links |-> {1}, maxFail |-> ListItems,
              deny |-> TRUE, open |-> {TRUE},
              maxKids |-> ListKids, maxDepth |-> MaxDepth,
              maxItems |-> ListItems]

SpecLists == InitLists /\ [][Next]_vars

(* Trees of directories, symlinks and pipes on two devices, walked to the   *)
(* end: main takes its next step whenever it can, and so does the          *)
(* showProgress goroutine that empties sc.msg.                             *)
InitWalk ==
    /\ InitScan
    /\ probe = NoFile
    /\ cfg = Config(0, 1, 0, FALSE, TRUE)
    /\ env = [native |-> TRUE, kinds |-> {"dir", "symlink", "pipe"},
              devs |-> {1, 2}, inos |-> {}, sizes |-> {40},
              blocks |-> {8}, dirSizes |-> {4096}, dirBlocks |-> {8},
              links |-> {1}, maxFail |-> 1, deny |-> FALSE,
              open |-> {TRUE},
              maxKids |-> MaxKids + 1, maxDepth |-> MaxDepth,
              maxItems |-> MaxItems]

Walk == ScanError \/ ScanLeaf \/ ScanDir \/ DirReturn

SpecWalk ==
    InitWalk /\ [][Next]_vars /\ WF_vars(Walk) /\ WF_vars(ShowProgress)

(* Flat directories of entries of unknown type, each of them an alert,     *)
(* stdout a TTY or not.                                                    *)
InitAlerts ==
    /\ InitScan
    /\ probe = NoFile
    /\ cfg \in {Config(0, 1, 0, FALSE, tty) : tty \in BOOLEAN}
    /\ env = [native |-> TRUE, kinds |-> {"unknown"},
              devs |-> {1}, inos |-> {}, sizes |-> {40},
              blocks |-> {8}, dirSizes |-> {4096}, dirBlocks |-> {8},
              links |-> {1}, maxFail |-> 1, deny |-> FALSE,
              open |-> {TRUE},
              maxKids |-> AlertKids, maxDepth |-> 2,
              maxItems |-> AlertItems]

SpecAlerts == InitAlerts /\ [][Next]_vars

(* Trees in which every item has an inode of its own or is one more path   *)
(* to a file met before, on two devices, with failures.                    *)
InitSum ==
    /\ InitScan
    /\ probe = NoFile
    /\ cfg = Config(0, 1, 0, FALSE, TRUE)
    /\ env = [native |-> TRUE, kinds |-> {"reg", "dir", "symlink"},
              devs |-> {1, 2}, inos |-> {}, sizes |-> {40},
              blocks |-> {8}, dirSizes |-> {4096}, dirBlocks |-> {8},
              links |-> {1, 2}, maxFail |-> 1, deny |-> FALSE,
              open |-> {TRUE},
              maxKids |-> MaxKids, maxDepth |-> MaxDepth,
              maxItems |-> MaxItems + 1]

SpecSum == InitSum /\ [][Next]_vars

(* Flat directories of many regular files, for every value of -b from 0.   *)
InitCompact ==
    /\ InitScan
    /\ probe = NoFile
    /\ cfg \in {Config(0, b, 0, FALSE, TRUE) : b \in 0..MaxBig}
    /\ env = [native |-> TRUE, kinds |-> {"reg"},
              devs |-> {1}, inos |-> {}, sizes |-> {40},
              blocks |-> {8, 16}, dirSizes |-> {4096},
              dirBlocks |-> {8}, links |-> {1}, maxFail |-> 1,
              deny |-> FALSE, open |-> {TRUE},
              maxKids |-> TopKids, maxDepth |-> MaxDepth,
              maxItems |-> TopItems]

SpecCompact == InitCompact /\ [][Next]_vars

----------------------------------------------------------------------------
(* Vocabulary of the properties.                                           *)

Items == 1..Len(scanned)
File(k) == scanned[k].f
ScanOver == pc \in {"endProgress", "waitDone", "results", "ncduEnd", "done"}
Objects == SelectSeq(out, LAMBDA x : x.t = "obj")

(* the earlier items of the root's device that carry the inode of item k *)
EarlierSameInode(k) ==
    {j \in 1..(k - 1) : ~File(j).isOtherFs /\ File(j).inode = File(k).inode}

RECURSIVE SumDsize(_)
SumDsize(s) == IF s = <<>> THEN 0 ELSE Head(s).dsize + SumDsize(Tail(s))

RECURSIVE SumUsage(_)
SumUsage(S) ==      \* the recorded disk usage of the items of the index set S
    IF S = {} THEN 0
    ELSE LET k == CHOOSE x \in S : TRUE
         IN  File(k).diskUsage + SumUsage(S \ {k})

----------------------------------------------------------------------------
(* C1: among the items of the scan root's device that share an inode       *)
(* number, the first met keeps its disk usage (512 * blocks), every later  *)
(* one has diskUsage 0, and nHardlinks counts exactly the later ones.      *)
C1_HardlinkCountedOnce ==
    /\ \A k \in Items :
          ~File(k).isOtherFs =>
             File(k).diskUsage =
                IF EarlierSameInode(k) = {}
                THEN cst_SECTOR * File(k).nBlocks512 ELSE 0
    /\ sc.nHardlinks =
          Cardinality({k \in Items :
                          ~File(k).isOtherFs /\ EarlierSameInode(k) # {}})

(* C2: an item on another device than the scan root adds nothing to the    *)
(* size and diskUsage its parent accumulates, and scan never enters it.    *)
C2_CrossDeviceAddsNothing ==
    /\ [][(/\ Len(scanned') = Len(scanned) + 1
           /\ Last(scanned').f.isOtherFs
           /\ stack # <<>>)
          => (/\ Last(stack').size = Top.size
              /\ Last(stack').du = Top.du)]_vars
    /\ [](\A i \in 1..Len(stack) : ~stack[i].f.isOtherFs)

(* The grammar of the export: the header, one item, the end token; an     *)
(* item is an object, or "[" object { "," item } "]".                      *)
PairOK(a, b) ==
    CASE a.t = "["   -> b.t = "obj"
      [] a.t = "obj" -> b.t \in {",", "]"}
      [] a.t = ","   -> b.t \in {"obj", "["}
      [] a.t = "]"   -> b.t \in {",", "]"}
      [] OTHER       -> FALSE

RECURSIVE Nesting(_, _)
Nesting(o, i) ==        \* open arrays after the first i tokens of o
    IF i = 0 THEN 0
    ELSE Nesting(o, i - 1)
         + (IF o[i].t = "[" THEN 1 ELSE IF o[i].t = "]" THEN -1 ELSE 0)

ValidExport(o) ==
    /\ Len(o) >= 3
    /\ o[1].t = "header"
    /\ Last(o).t = "end"
    /\ LET b == SubSeq(o, 2, Len(o) - 1)
       IN  /\ b[1].t \in {"obj", "["}
           /\ Last(b).t \in {"obj", "]"}
           /\ \A i \in 1..(Len(b) - 1) : PairOK(b[i], b[i + 1])
           /\ \A i \in 1..Len(b) :
                 /\ Nesting(b, i) >= 0
                 /\ b[i].t = "," => Nesting(b, i) > 0
           /\ Nesting(b, Len(b)) = 0

(* C5: the exported token sequence is valid nested-array JSON: brackets    *)
(* match, entries of one array are separated by exactly one comma, no      *)
(* comma before a close token, no two objects without a separator.         *)
C5_ExportIsValidJson ==
    (pc = "done" /\ cfg.export) => ValidExport(out)

(* C7: the export holds one object per scanned item: as many objects as    *)
(* nItems, and every scanned path exactly once.                            *)
C7_EveryItemExportedOnce ==
    (pc = "done" /\ cfg.export) =>
       /\ Len(Objects) = sc.nItems
       /\ \A k \in Items :
             Cardinality({i \in 1..Len(Objects) :
                             Objects[i].path = File(k).path}) = 1

(* C6 as stated: the dsize of the exported entries that are not excluded   *)
(* sums to the total disk usage scan returns for the root, hardlinked      *)
(* files included.  Stated on the trees that hold no cross-device item, so *)
(* that no excluded entry is involved.                                     *)
C6_DsizeSumIsTotal ==
    (pc = "done" /\ cfg.export /\ \A k \in Items : ~File(k).isOtherFs) =>
       SumDsize(SelectSeq(Objects, LAMBDA x : ~x.excluded)) = total.diskUsage

(* C6 amended: the dsize of the entries that are neither excluded nor      *)
(* flagged hlnkc, plus the usage scan recorded for the items with several  *)
(* links (their entries carry the full 512 * blocks at every occurrence)   *)
(* and for the cross-device items (their entries carry no dsize), is the   *)
(* total disk usage.                                                       *)
C6_DsizeSumAmended ==
    (pc = "done" /\ cfg.export) =>
       SumDsize(SelectSeq(Objects, LAMBDA x : ~x.excluded /\ ~x.hlnkc))
       + SumUsage({k \in Items : /\ ~File(k).isOtherFs
                                 /\ File(k).nLinks > 1 /\ ~File(k).isDir})
       + SumUsage({k \in Items : File(k).isOtherFs})
       = total.diskUsage

(* a finished export with a discounted hardlink and a cross-device item *)
C6_Witness ==
    /\ pc = "done" /\ cfg.export
    /\ \E k \in Items : /\ ~File(k).isOtherFs /\ File(k).nLinks > 1
                        /\ File(k).diskUsage = 0 /\ File(k).nBlocks512 > 0
    /\ \E k \in Items : File(k).isOtherFs /\ File(k).diskUsage > 0

(* the path of the entry listed after path p in the same directory *)
NextSibling(p) == Append(Front(p), Last(p) + 1)

(* C8: a failed Lstat below the root adds 1 to nErrors and nothing to      *)
(* nItems, enters nothing, leaves the parent's sums alone and moves the    *)
(* parent to the next entry; a directory returns only after its last       *)
(* entry, with its aggregate; the walk ends with the root's record.        *)
C8_StatFailureIsLocal ==
    /\ [][(sc'.nErrors # sc.nErrors /\ stack # <<>>)
          => (/\ sc'.nErrors = sc.nErrors + 1
              /\ sc'.nItems = sc.nItems
              /\ pc' = "scan"
              /\ Len(stack') = Len(stack)
              /\ Front(stack') = Front(stack)
              /\ Last(stack').n = Top.n + 1
              /\ Last(stack').l = Top.l
              /\ Last(stack').size = Top.size
              /\ Last(stack').du = Top.du
              /\ total' = total
              /\ scanned' = scanned)]_vars
    /\ [][Len(stack') < Len(stack)
          => (/\ Top.n = Top.l
              /\ IF Len(stack) = 1
                 THEN /\ total' # NoFile
                      /\ total'.path = Top.f.path
                      /\ total'.diskUsage = Top.du
                 ELSE /\ Last(stack').du = stack[Len(stack) - 1].du + Top.du
                      /\ Last(stack').n = stack[Len(stack) - 1].n + 1)]_vars
    /\ []((ScanOver /\ scanned # <<>>) => (total # NoFile /\ stack = <<>>))

(* a finished walk in which an entry failed and its next sibling was       *)
(* scanned afterwards                                                      *)
C8_Witness ==
    /\ ScanOver /\ total # NoFile
    /\ \E i \in 1..Len(failed) :
          /\ failed[i] # <<>>
          /\ \E k \in Items : File(k).path = NextSibling(failed[i])

(* C9: a failed ReadDir adds 1 to nDenied, flags the directory's record    *)
(* (and its exported entry) with the read error, enters the directory with *)
(* no entry and its own stat size and usage; the directory then returns    *)
(* these to its parent, which moves to its next entry.                     *)
C9_DeniedDirectoryIsKept ==
    /\ [][sc'.nDenied # sc.nDenied
          => (/\ sc'.nDenied = sc.nDenied + 1
              /\ Len(stack') = Len(stack) + 1
              /\ Last(stack').f.readError
              /\ Last(stack').l = 0
              /\ Last(stack').size = Last(stack').f.size
              /\ Last(stack').du = Last(stack').f.diskUsage
              /\ Last(scanned').f = Last(stack').f
              /\ pc' = "scan"
              /\ cfg.export => (/\ Last(out').t = "obj"
                                /\ Last(out').read_error
                                /\ Last(out').path = Last(stack').f.path))
         ]_vars
    /\ [][(Len(stack') < Len(stack) /\ Top.f.readError)
          => IF Len(stack) = 1
             THEN /\ total' # NoFile
                  /\ total'.size = Top.f.size
                  /\ total'.diskUsage = Top.f.diskUsage
                  /\ pc' = "endProgress"
             ELSE LET p == stack[Len(stack) - 1]
                  IN  /\ Last(stack').size = p.size + Top.f.size
                      /\ Last(stack').du = p.du + Top.f.diskUsage
                      /\ Last(stack').n = p.n + 1
                      /\ Last(stack').l = p.l
                      /\ pc' = "scan"]_vars

(* a finished walk in which a directory below the root could not be read   *)
(* and its next sibling was scanned afterwards                             *)
C9_Witness ==
    /\ ScanOver /\ total # NoFile
    /\ \E k \in Items :
          /\ File(k).readError /\ File(k).depth > 1 /\ File(k).size > 0
          /\ \E j \in Items : File(j).path = NextSibling(File(k).path)

(* C3 as stated: the disk usage of the depth-1 entries show() prints plus  *)
(* its REMAINING rollup is the total disk usage of the scan root.          *)
C3_ShownPlusRemainingIsTotal ==
    report # NoFile =>
       SumDu(report.show.lines) + report.show.rDiskUsage = total.diskUsage

(* C3 amended: when a regular file was found or every depth-1 entry is a   *)
(* directory, the printed entries plus REMAINING plus the root directory's *)
(* own disk usage plus the usage of the root's cross-device entries is the *)
(* total disk usage.                                                       *)
C3_ShownPlusRemainingAmended ==
    (/\ report # NoFile
     /\ sc.nFiles > 0 \/ \A i \in 1..Len(fi) : fi[i].isDir) =>
       SumDu(report.show.lines) + report.show.rDiskUsage
       + File(1).diskUsage
       + SumUsage({k \in Items : File(k).depth = 2 /\ File(k).isOtherFs})
       = total.diskUsage

(* a report with a printed entry, a REMAINING rollup, a root directory     *)
(* that uses space and a cross-device entry                                *)
C3_Witness ==
    /\ report # NoFile
    /\ sc.nFiles > 0
    /\ Len(report.show.lines) >= 1
    /\ report.show.rDiskUsage > 0
    /\ File(1).diskUsage > 0
    /\ \E k \in Items : /\ File(k).depth = 2 /\ File(k).isOtherFs
                        /\ File(k).diskUsage > 0

(* the leaf records scan registered with the biggest files, in order *)
Registered ==
    SelectSeq([k \in Items |-> File(k)],
              LAMBDA f : ~f.isOtherFs /\ ~f.isDir)

Usages(s) == [i \in 1..Len(s) |-> s[i].diskUsage]

(* C4: the entries showmax prints carry the disk usages of the first       *)
(* maxBigFiles entries of one descending sort of all registered leaves.    *)
C4_TopKIsExact ==
    (report # NoFile /\ showmaxRuns(total)) =>
       Usages(report.big) =
          Usages(Take(SortDesc(Registered), cfg.maxBigFiles))

(* a report after a compaction, the biggest leaf having been registered    *)
(* after the first 4 * maxBigFiles + 1                                     *)
C4_Witness ==
    /\ report # NoFile /\ showmaxRuns(total)
    /\ Len(Registered) >= 4 * cfg.maxBigFiles + 2
    /\ \A i \in 1..(4 * cfg.maxBigFiles + 1) :
          Registered[i].diskUsage < Last(Registered).diskUsage
    /\ \E i, j \in 1..(4 * cfg.maxBigFiles + 1) :
          Registered[i].diskUsage < Registered[j].diskUsage

(* the occurrences, from the history of the walk *)
Occurrences(kinds) == Cardinality({k \in Items : File(k).kind \in kinds})
Denials == Cardinality({k \in Items : ~scanned[k].ok})
NoEntry ==      \* directories entered whose listing held no entry
    Cardinality({k \in Items :
                    File(k).isDir /\ ~File(k).isOtherFs /\ scanned[k].l = 0})

CountersExact ==
    /\ sc.nErrors = Len(failed)
    /\ sc.nDenied = Denials
    /\ sc.nEmptyDir = NoEntry
    /\ sc.nPipes = Occurrences({"pipe"})
    /\ sc.nSockets = Occurrences({"socket"})
    /\ sc.nCharDevices = Occurrences({"chardev"})
    /\ sc.nBlockDevices = Occurrences({"blockdev"})

(* C10 as stated: every recording list holds at most its cap, and the      *)
(* counters are exact.                                                     *)
C10_ListsCapped ==
    /\ Len(lists.errors) <= cfg.maxErrors
    /\ Len(lists.denieddirs) <= cfg.maxDenied
    /\ Len(lists.emptydirs) <= cfg.maxEmptyDirs
    /\ Len(lists.devices) <= cfg.maxDevices
    /\ Len(lists.streams) <= cfg.maxStreams
    /\ CountersExact

Recorded(max, n) == IF max > 0 THEN n ELSE 0

(* What the lists hold: nothing when the cap is 0, one entry per           *)
(* occurrence otherwise, beyond the cap too; only the report stops at the  *)
(* cap.  nEmptyDir counts every directory whose listing held no entry, the *)
(* unreadable ones included.                                               *)
ListsHoldEveryOccurrence ==
    /\ Len(lists.errors) = Recorded(cfg.maxErrors, sc.nErrors)
    /\ Len(lists.denieddirs) = Recorded(cfg.maxDenied, sc.nDenied)
    /\ Len(lists.emptydirs) = Recorded(cfg.maxEmptyDirs, sc.nEmptyDir)
    /\ Len(lists.devices) =
          Recorded(cfg.maxDevices, sc.nCharDevices + sc.nBlockDevices)
    /\ Len(lists.streams) =
          Recorded(cfg.maxStreams, sc.nPipes + sc.nSockets)
    /\ CountersExact
    /\ report # NoFile =>
          /\ Len(report.errors) <= cfg.maxErrors
          /\ Len(report.denied) <= cfg.maxDenied
          /\ Len(report.empty) <= cfg.maxEmptyDirs
          /\ Len(report.devices) <= cfg.maxDevices
          /\ Len(report.streams) <= cfg.maxStreams

(* a report after a walk that recorded more errors than the cap and a      *)
(* stream                                                                  *)
ListsBeyondCap ==
    /\ report # NoFile
    /\ cfg.maxErrors > 0
    /\ Len(lists.errors) > cfg.maxErrors
    /\ Len(lists.streams) > 0
    /\ Len(report.errors) = cfg.maxErrors

(* main has left endProgress *)
ReportStarted == pc \in {"results", "ncduEnd", "done", "panic"}

(* C11: on a TTY, main leaves endProgress only when showProgress has taken *)
(* the sentinel off the channel and has been heard on sc.done, and from    *)
(* then on showProgress writes nothing: no alert, no progress line.        *)
C11_NoOutputAfterAck ==
    /\ []((cfg.tty /\ ReportStarted) => (bg = "exit" /\ msg = <<>>))
    /\ [][(cfg.tty /\ pc' = "results" /\ pc # "results")
          => (pc = "waitDone" /\ bg = "ack")]_vars
    /\ [][ReportStarted => (printed' = printed /\ bg' = bg)]_vars

(* a report on a TTY after showProgress wrote a progress line and a notice *)
C11_Witness ==
    /\ cfg.tty /\ report # NoFile
    /\ \E i, j \in 1..Len(printed) :
          printed[i].what = "progress" /\ printed[j].what = "otherfs"

(* the boundary notices sysStat pushed, in order *)
Notices ==
    SelectSeq([k \in Items |-> [what |-> "otherfs", path |-> File(k).path]],
              LAMBDA m : \E k \in Items :
                            File(k).path = m.path /\ File(k).isOtherFs)

(* C12: when the final report starts, every boundary notice pushed has     *)
(* been printed, once, in the order pushed, on a TTY or not.               *)
C12_BoundaryNoticesPrinted ==
    ReportStarted =>
       SelectSeq(printed, LAMBDA m : m.what = "otherfs") = Notices

(* C13: the record fullStat returns for a symlink whose apparent size is   *)
(* below 60 bytes has diskUsage 0, whatever block count sysStat read.      *)
C13_FastSymlinkUsesNothing ==
    \A k \in Items :
       (File(k).isSymlink /\ File(k).size < cst_FASTSYMLINK)
          => File(k).diskUsage = 0

(* C14: avgDiskUsage(sz, bsize) is 0 for sz = 0, bsize for 0 < sz < bsize, *)
(* else the smallest multiple of bsize that is >= sz; it is never smaller  *)
(* than sz and exceeds it by less than bsize.                              *)
C14_AvgDiskUsageRoundsUp ==
    (probe # NoFile /\ probe.fn = "avgDiskUsage" /\ probe.applied) =>
       LET sz == probe.sz
           b  == probe.bsize
           r  == probe.res
       IN  /\ sz = 0 => r = 0
           /\ (0 < sz /\ sz < b) => r = b
           /\ sz >= b => (r % b = 0 /\ r >= sz /\ r - b < sz)
           /\ r >= sz
           /\ sz > 0 => r - sz < b

(* size rounded up to the next multiple of the block size *)
RoundUp(size, bsize) == ((size + bsize - 1) \div bsize) * bsize

(* C15 as stated: without native block counts, the disk usage recorded for *)
(* an item is its size rounded up to a multiple of 4096 (0 for size 0).    *)
C15_FallbackIsRounding ==
    ~env.native =>
       \A k \in Items :
          File(k).diskUsage = RoundUp(File(k).size, dft_BLOCKSIZE)

(* C15 amended: without native block counts, the disk usage recorded for   *)
(* an item is its apparent size, and the total is the sum of the sizes.    *)
C15_FallbackIsSize ==
    ~env.native =>
       /\ \A k \in Items : File(k).diskUsage = File(k).size
       /\ total # NoFile => total.diskUsage = total.size

(* a finished walk of the generic build over an item of 40 bytes and one   *)
(* of 5000 bytes                                                           *)
C15_Witness ==
    /\ ~env.native /\ ScanOver /\ total # NoFile
    /\ \E j, k \in Items : /\ File(j).size = 40 /\ File(j).diskUsage = 40
                           /\ File(k).size = 5000
                           /\ File(k).diskUsage = 5000

(* C16: with the generic sysStat every record has deviceId 0 and inode 0,  *)
(* no item is flagged cross-device, none is discounted as a hardlink, no   *)
(* boundary is found or announced, nHardlinks stays 0 and the inode ledger *)
(* stays empty.                                                            *)
C16_NoLedgerWithoutNativeStat ==
    ~env.native =>
       /\ \A k \in Items : /\ File(k).deviceId = 0 /\ File(k).inode = 0
                           /\ ~File(k).isOtherFs
                           /\ File(k).diskUsage = File(k).size
       /\ \A i \in 1..Len(stack) : ~stack[i].f.isOtherFs
       /\ sc.nHardlinks = 0
       /\ ~sc.foundBoundary
       /\ inodes = <<>>
       /\ \A i \in 1..Len(msg) : msg[i].what # "otherfs"

(* a finished walk of the generic build that met two paths to one inode    *)
(* and an item of another device, all of them with a size                  *)
C16_Witness ==
    /\ ~env.native /\ ScanOver /\ total # NoFile
    /\ \E j, k \in Items :
          /\ j < k
          /\ scanned[j].st.dev = scanned[k].st.dev
          /\ scanned[j].st.ino = scanned[k].st.ino
          /\ File(k).size > 0
    /\ \E k \in Items : scanned[k].st.dev # scanned[1].st.dev
                        /\ File(k).size > 0

(* C17: entering a directory whose listing succeeded with no entry adds    *)
(* exactly 1 to nEmptyDir; the record it returns has the size and the      *)
(* diskUsage of the directory's own stat and items = 0, so that its parent *)
(* (or main, for the scan root) receives just these.                       *)
C17_EmptyDirectory ==
    /\ [][(/\ Len(stack') = Len(stack) + 1
           /\ Last(stack').l = 0
           /\ ~Last(stack').f.readError)
          => sc'.nEmptyDir = sc.nEmptyDir + 1]_vars
    /\ [][(/\ Len(stack') < Len(stack)
           /\ Top.l = 0
           /\ ~Top.f.readError)
          => IF Len(stack) = 1
             THEN /\ total' # NoFile
                  /\ total'.size = Top.f.size
                  /\ total'.diskUsage = Top.f.diskUsage
                  /\ total'.items = 0
             ELSE LET p == stack[Len(stack) - 1]
                  IN  /\ Last(stack').size = p.size + Top.f.size
                      /\ Last(stack').du = p.du + Top.f.diskUsage
                      /\ Last(stack').items = p.items]_vars

(* a finished walk that met, below the root, a readable directory with no  *)
(* entry and a size, counted once                                          *)
C17_Witness ==
    /\ ScanOver /\ total # NoFile
    /\ sc.nEmptyDir = 1
    /\ \E k \in Items :
          /\ File(k).isDir /\ ~File(k).isOtherFs /\ File(k).depth > 1
          /\ scanned[k].ok /\ scanned[k].l = 0
          /\ File(k).diskUsage > 0

(* C18: the name written into an exported object, the scan root's         *)
(* included, holds no raw control character (code <= 31 or 127) and no     *)
(* double quote: each is replaced by its \u00XX escape.                    *)
C18_ExportedNameIsEscaped ==
    (probe # NoFile /\ probe.fn = "ncduAdd" /\ probe.applied) =>
       /\ \A i \in 1..Len(probe.res) :
             probe.res[i] > 31 /\ probe.res[i] # 127 /\ probe.res[i] # 34
       /\ probe.res = cleanName(IF probe.depth = 1 THEN probe.wd
                                ELSE probe.name)

(* C19: when the export file cannot be opened the program exits with code  *)
(* 1 before the walk: nothing was stat'ed, every counter is 0, nothing was *)
(* written or reported, and no step follows.                               *)
C19_OpenFailureIsFatal ==
    /\ [][(pc = "start" /\ pc' # "start" /\ cfg.export /\ efile' # "open")
          => pc' = "exit1"]_vars
    /\ [](pc = "exit1" =>
             /\ cfg.export
             /\ scanned = <<>> /\ failed = <<>>
             /\ \A c \in DOMAIN sc \ {"foundBoundary"} : sc[c] = 0
             /\ report = NoFile /\ total = NoFile
             /\ out = <<>> /\ efile = "none"
             /\ bg = "off" /\ printed = <<>>)
    /\ [][pc # "exit1"]_vars

(* the program has exited with code 1 *)
C19_Witness == pc = "exit1" /\ cfg.export

(* The order of the operations on the export file: opened, with the       *)
(* header first, before the first Lstat; written only while open; the end  *)
(* token written by the step that closes it; closed for good, with nothing *)
(* written afterwards.                                                     *)
ExportOrder ==
    /\ []((cfg.export /\ (scanned # <<>> \/ failed # <<>>))
             => (efile # "none" /\ out # <<>> /\ Head(out) = TokInit))
    /\ [][(cfg.export /\ out' # out)
          => (/\ efile # "closed"
              /\ Len(out') > Len(out)
              /\ SubSeq(out', 1, Len(out)) = out
              /\ IF efile' = "closed"
                 THEN /\ efile = "open"
                      /\ out' = Append(out, TokEnd)
                 ELSE /\ efile' = "open"
                      /\ \A i \in (Len(out) + 1)..Len(out') :
                            out'[i] # TokEnd)]_vars
    /\ [][efile = "closed" => (efile' = "closed" /\ out' = out)]_vars
    /\ [][(efile' = "closed" /\ efile # "closed")
          => (efile = "open" /\ Last(out') = TokEnd)]_vars

(* the program has come to an end, by returning from main or by a panic *)
Ended == pc \in {"done", "panic"}

(* C20: with export enabled, the file is opened and the header written     *)
(* before the first stat, every token is written while the file is open,   *)
(* the end token is the last write, and the file is closed exactly once,   *)
(* after that token: a run that has ended has written the end token and    *)
(* closed the file.                                                        *)
C20_ExportFileLifetime ==
    /\ ExportOrder
    /\ []((cfg.export /\ Ended)
             => (efile = "closed" /\ out # <<>> /\ Last(out) = TokEnd))

(* the scanned items that lie below the path p *)
Descendants(p) ==
    {k \in Items : /\ Len(File(k).path) > Len(p)
                   /\ SubSeq(File(k).path, 1, Len(p)) = p}

(* C21: the items count a directory returns after its last entry is the    *)
(* number of successfully stat'ed items below it (a cross-device item      *)
(* counts as one item, nothing lies below it); an entry whose Lstat failed *)
(* adds nothing to it.                                                     *)
C21_ItemsCountResolved ==
    /\ \A i \in 1..Len(stack) :
          stack[i].n = stack[i].l =>
             stack[i].items = Cardinality(Descendants(stack[i].f.path))
    /\ total # NoFile => total.items = Len(scanned) - 1

(* every path handed to Lstat, resolved or not *)
Visited == [k \in Items |-> File(k).path] \o failed

(* C22: scan enters only directories of the scan root's device: a symlink, *)
(* a special file and a cross-device item return without a listing.  No    *)
(* path is handed to Lstat twice, and with showProgress emptying the       *)
(* channel the walk comes to its end.                                      *)
C22_RecursesOnlyIntoDirectories ==
    /\ [](\A i \in 1..Len(stack) :
             /\ stack[i].f.kind = "dir" /\ stack[i].f.isDir
             /\ ~stack[i].f.isSymlink /\ ~stack[i].f.isSpecial
             /\ ~stack[i].f.isOtherFs)
    /\ [][(/\ Len(scanned') = Len(scanned) + 1
           /\ \/ Last(scanned').f.isSymlink
              \/ Last(scanned').f.isSpecial
              \/ Last(scanned').f.isOtherFs)
          => (/\ Len(stack') <= Len(stack)
              /\ \A i \in 1..Len(stack') :
                    stack'[i].f.path # Last(scanned').f.path)]_vars
    /\ [](\A i, j \in 1..Len(Visited) : i # j => Visited[i] # Visited[j])
    /\ (pc = "scan" ~> ScanOver)

(* a finished walk of a root directory that lists a symlink, a special     *)
(* file and a directory of another device                                  *)
C22_Witness ==
    /\ ScanOver /\ total # NoFile /\ total.items = 3
    /\ \E k \in Items : File(k).isSymlink
    /\ \E k \in Items : File(k).isSpecial
    /\ \E k \in Items : File(k).isOtherFs /\ File(k).isDir

RECURSIVE SumSize(_)
SumSize(S) ==       \* the apparent size of the items of the index set S
    IF S = {} THEN 0
    ELSE LET k == CHOOSE x \in S : TRUE
         IN  File(k).size + SumSize(S \ {k})

(* the scanned item of path p together with the items below it *)
Subtree(p) == {k \in Items : File(k).path = p} \cup Descendants(p)

(* the listed entries below the path p whose Lstat failed *)
FailedBelow(p) ==
    {i \in 1..Len(failed) : /\ Len(failed[i]) > Len(p)
                            /\ SubSeq(failed[i], 1, Len(p)) = p}

(* the record d is the aggregate of everything scanned at and below its    *)
(* path: sizes, recorded disk usage, and one item per listed entry         *)
AggregatesSubtree(d) ==
    /\ d.size = SumSize(Subtree(d.path))
    /\ d.diskUsage = SumUsage(Subtree(d.path))
    /\ d.items = Cardinality(Descendants(d.path))
                 + Cardinality(FailedBelow(d.path))

(* C23: the detail list holds only records of entries of the scan root     *)
(* (depth 2), never one of a deeper item; the record of a directory in the *)
(* list, and the record returned for the root, nevertheless carry the      *)
(* size, the disk usage and the count of every item below them.            *)
C23_DetailListIsShallow ==
    /\ \A i \in 1..Len(fi) :
          /\ fi[i].depth = 2
          /\ Len(fi[i].path) = 1
          /\ fi[i].isDir => AggregatesSubtree(fi[i])
    /\ total # NoFile => AggregatesSubtree(total)

(* a finished walk with a directory in the detail list that holds a file   *)
(* (at depth 3) with a size and a disk usage                               *)
C23_Witness ==
    /\ ScanOver /\ total # NoFile
    /\ \E i \in 1..Len(fi) :
          /\ fi[i].isDir
          /\ \E k \in Descendants(fi[i].path) :
                /\ File(k).depth = 3 /\ ~File(k).isDir /\ ~File(k).isOtherFs
                /\ File(k).size > 0 /\ File(k).diskUsage > 0
                /\ fi[i].diskUsage > File(k).diskUsage

(* the step returns f to the caller as a leaf: no listing is entered, and  *)
(* the caller (main, or the directory that listed it) receives the record  *)
ReturnsLeaf(f) ==
    IF stack = <<>>
    THEN stack' = <<>> /\ total' = f
    ELSE /\ Len(stack') = Len(stack)
         /\ Last(stack').n = Top.n + 1
         /\ Last(stack').size = Top.size + f.size
         /\ Last(stack').du = Top.du + f.diskUsage

(* the step appends f to bigfiles, once *)
RegistersOnce(f) ==
    /\ bigfiles' # <<>>
    /\ Last(bigfiles') = f
    /\ Len(bigfiles') <= Len(bigfiles) + 1
    /\ \A i \in 1..(Len(bigfiles') - 1) : bigfiles'[i].path # f.path

(* C24 as stated: every resolved item that is a symlink or not a           *)
(* directory, on the root's device or not, is appended to bigfiles exactly *)
(* once and returned as a leaf; no directory of the root's device is ever  *)
(* in bigfiles.                                                            *)
C24_EveryLeafRegistered ==
    /\ [][\A k \in {Len(scanned')} :
             (/\ Len(scanned') = Len(scanned) + 1
              /\ File(k)'.isSymlink \/ ~File(k)'.isDir)
             => (RegistersOnce(File(k)') /\ ReturnsLeaf(File(k)'))]_vars
    /\ [](\A i \in 1..Len(bigfiles) :
             ~(bigfiles[i].isDir /\ ~bigfiles[i].isOtherFs))

(* C24 amended: a resolved item of the root's device that is a symlink or  *)
(* not a directory is appended to bigfiles exactly once and returned as a  *)
(* leaf; an item flagged cross-device, of whatever kind, is returned as a  *)
(* leaf and leaves bigfiles as it was; bigfiles holds no directory and no  *)
(* cross-device item.                                                      *)
C24_SameDeviceLeafRegistered ==
    /\ [][\A k \in {Len(scanned')} :
             (/\ Len(scanned') = Len(scanned) + 1
              /\ ~File(k)'.isOtherFs
              /\ File(k)'.isSymlink \/ ~File(k)'.isDir)
             => (RegistersOnce(File(k)') /\ ReturnsLeaf(File(k)'))]_vars
    /\ [][\A k \in {Len(scanned')} :
             (Len(scanned') = Len(scanned) + 1 /\ File(k)'.isOtherFs)
             => (bigfiles' = bigfiles /\ ReturnsLeaf(File(k)'))]_vars
    /\ [](\A i \in 1..Len(bigfiles) :
             ~bigfiles[i].isDir /\ ~bigfiles[i].isOtherFs)

(* a finished walk that met a symlink of the root's device, now in         *)
(* bigfiles, and a regular file of another device, not in bigfiles         *)
C24_Witness ==
    /\ ScanOver /\ total # NoFile
    /\ \E k \in Items :
          /\ File(k).isSymlink /\ ~File(k).isOtherFs
          /\ \E i \in 1..Len(bigfiles) : bigfiles[i] = File(k)
    /\ \E k \in Items :
          /\ File(k).isRegular /\ File(k).isOtherFs
          /\ \A i \in 1..Len(bigfiles) : bigfiles[i].path # File(k).path

(* scan is about to stat a path for which fullStat pushes an alert, and    *)
(* the channel is full: push() waits for a receive on sc.msg               *)
PushWaits ==
    /\ CanCall
    /\ \E st \in StatChoices :
          ~CanPush(fullStat(CallPath, CallDepth, st).alerts)

(* C25: push never blocks the walk for good: the channel is never full,    *)
(* with an alert to send, while no showProgress goroutine is there to      *)
(* receive from it, on a TTY or not.                                       *)
C25_PushNeverBlocksForever == ~(PushWaits /\ bg # "run")

(* the items of the root's device whose usage sysStat discounted *)
Discounted ==
    {k \in Items : /\ ~File(k).isOtherFs
                   /\ File(k).diskUsage # cst_SECTOR * File(k).nBlocks512}

(* C26: an item of the scan root's device is discounted to 0, and counted  *)
(* in nHardlinks, only if an earlier item of that device carried the same  *)
(* inode number; the same number on an item of another device discounts    *)
(* nothing.                                                                *)
C26_DiscountNeedsSameDevice ==
    /\ \A k \in Discounted : EarlierSameInode(k) # {}
    /\ sc.nHardlinks <=
          Cardinality({k \in Items :
                          ~File(k).isOtherFs /\ EarlierSameInode(k) # {}})

(* C27: when Lstat fails on the scan root itself, show and showmax are not *)
(* called with a nil total and the program does not panic: it ends with a  *)
(* report or an error message.                                             *)
C27_RootFailureHandled ==
    /\ pc = "results" => total # NoFile
    /\ pc # "panic"

(* the directories entered whose listing succeeded and held no entry *)
ListedEmpty ==
    {k \in Items : /\ File(k).isDir /\ ~File(k).isOtherFs
                   /\ scanned[k].ok /\ scanned[k].l = 0}

(* C28: nEmptyDir is the number of directories that were listed and held   *)
(* no entry; a directory whose listing failed is counted in nDenied and is *)
(* neither counted nor recorded as empty.                                  *)
C28_DeniedIsNotEmpty ==
    /\ sc.nEmptyDir = Cardinality(ListedEmpty)
    /\ sc.nDenied = Denials
    /\ \A i \in 1..Len(lists.emptydirs) :
          \A k \in Items :
             File(k).path = lists.emptydirs[i] => scanned[k].ok

(* C29: the record scan returns for the root carries the sum of the        *)
(* recorded disk usage (after the hardlink discount) and the sum of the    *)
(* apparent sizes of the items counted in nItems, each of them once; a     *)
(* path whose Lstat failed adds nothing.                                   *)
C29_TotalIsSumOfScanned ==
    /\ sc.nItems = Len(scanned)
    /\ total # NoFile =>
          /\ total.diskUsage = SumUsage(Items)
          /\ total.size = SumSize(Items)

(* a finished walk over a file below a directory of the root, a second     *)
(* path to a file, discounted, and an item of another device               *)
C29_Witness ==
    /\ ScanOver /\ total # NoFile
    /\ \E k \in Items : File(k).depth = 3 /\ File(k).diskUsage > 0
    /\ \E k \in Items : /\ ~File(k).isOtherFs /\ File(k).nLinks > 1
                        /\ File(k).diskUsage = 0 /\ File(k).size > 0
    /\ \E k \in Items : File(k).isOtherFs /\ File(k).diskUsage > 0

(* C30: bigfiles never holds more than 4 * maxBigFiles + 1 entries, for    *)
(* maxBigFiles from 0 and any number of leaves; a leaf that finds more     *)
(* than 4 * maxBigFiles entries is appended to the maxBigFiles biggest of  *)
(* them, and to nothing else.                                              *)
C30_WorkingListBounded ==
    /\ [](Len(bigfiles) <= 4 * cfg.maxBigFiles + 1)
    /\ [][(bigfiles' # bigfiles /\ pc = "scan")
          => IF Len(bigfiles) > 4 * cfg.maxBigFiles
             THEN /\ Len(bigfiles') = cfg.maxBigFiles + 1
                  /\ Usages(Front(bigfiles')) =
                        Usages(Take(SortDesc(bigfiles), cfg.maxBigFiles))
                  /\ Last(bigfiles') = Last(scanned').f
             ELSE bigfiles' = Append(bigfiles, Last(scanned').f)]_vars

(* a walk in which a compaction took place, for maxBigFiles = 1: a sixth   *)
(* leaf was registered and bigfiles holds two entries                      *)
C30_Witness ==
    /\ pc = "scan"
    /\ cfg.maxBigFiles = 1
    /\ Len(Registered) = 4 * cfg.maxBigFiles + 2
    /\ Len(bigfiles) = cfg.maxBigFiles + 1
    /\ bigfiles[1].diskUsage > Registered[1].diskUsage

====
